---- MODULE Spec2Model ----
(***************************************************************************)
(* Model of the transcript summarizer's asynchronous job pipeline:         *)
(*   - the HTTP layer of api.py (POST /summarize, POST /summarize/upload,  *)
(*     GET /status/{id}, GET /summary/{id}),                               *)
(*   - the request schema of models/schemas.py,                            *)
(*   - the Celery task of worker.py with its broker and result backend,    *)
(*   - the vector store of storage/vector_store.py,                        *)
(*   - one call of the summarizer of core/summarizer.py (single chunk and  *)
(*     batched map-reduce), in a specification of its own.                 *)
(*                                                                         *)
(* A text is modelled by what the code reads of it: the number of          *)
(* characters that remain after str.strip() (chars) and the number of        *)
(* leading/trailing whitespace characters (pad); len(text) = chars + pad.    *)
(***************************************************************************)
EXTENDS Integers, Sequences, FiniteSets, TLC

(* ------------------------------ bounds --------------------------------- *)

\* number of task ids the broker hands out
MaxJobs == 1
\* number of times the broker puts an unacknowledged message back on the queue
MaxRedeliver == 1
\* largest number of documents the text splitter produces for one text
MaxChunks == 4

(* ------------------------- program constants --------------------------- *)

\* SummarizationRequest.text: Field(min_length=10, ...)
SchemaMinLength == 10
\* SummarizationRequest.text: Field(max_length=1000000, ...)
SchemaMaxLength == 1000000
\* Settings.max_text_length default
DefaultMaxTextLength == 1000000
\* summarize_uploaded_file: "Transcript too short (minimum 50 characters)"
UploadMinLength == 50
\* summarize_uploaded_file: "File too large. Maximum size is 10MB" (10 * 1024 * 1024)
UploadMaxBytes == 10485760
\* estimated_time = max(30, len // 1000)
MinEstimate == 30
EstimateDivisor == 1000
\* Settings.chunk_size default
ChunkSize == 4000
\* _summarize_multiple_chunks: batch_size = 3
BatchSize == 3

(* ------------------------------ domains -------------------------------- *)

Workers == {"w1", "w2"}
Procs == Workers \cup {"api"}

\* ids 1..MaxJobs can be issued by send_task; MaxJobs + 1 is never issued
TaskIds == 1..(MaxJobs + 1)

\* class SummaryType(str, Enum)
SummaryType == {"comprehensive", "brief", "key_points"}
\* style strings a client may send ("concise" is the upload form's default)
StyleInputs == SummaryType \cup {"invalid_type", "concise"}

\* keys of the templates dict of _get_summary_prompt / _get_map_prompt / _get_reduce_prompt
TemplateStyles == {"comprehensive", "brief", "key_points"}

Text(l, p) == [chars |-> l, pad |-> p]
\* len(text)
TextLen(t) == t.chars + t.pad
\* text.strip()
Strip(t) == [chars |-> t.chars, pad |-> 0]

\* settings.max_text_length values (env MAX_TEXT_LENGTH): the default, and one below the
\* schema's max_length
ConfigMaxChoices == {DefaultMaxTextLength, SchemaMaxLength \div 2}

\* request bodies a client may send to POST /summarize
SubmitTexts ==
    { Text(0, 0), Text(0, 3), Text(0, 12), Text(5, 0), Text(2, 8), Text(10, 0),
      Text(60, 2), Text(30999, 1), Text(SchemaMaxLength \div 2 + 1, 0),
      Text(SchemaMaxLength, 0), Text(SchemaMaxLength + 1, 0) }

\* decoded file contents a client may upload as .txt
UploadTexts ==
    { Text(0, 4), Text(10, 0), Text(60, 2), Text(SchemaMaxLength + 1, 0),
      Text(UploadMaxBytes + 1, 0) }

\* summary lengths the LLM may answer with (after strip)
SummaryLengths == {5}

NoResult ==
    [present |-> FALSE, summary_length |-> 0, original_length |-> 0,
     summary_type |-> "", processing_time |-> FALSE]

\* no call of the summarizer is under way
IdleEngine ==
    [pc |-> "idle", text |-> Text(0, 0), style |-> "", n |-> 0, i |-> 0,
     calls |-> <<>>, answers |-> <<>>, completed |-> <<>>, chunk_summaries |-> <<>>,
     reduce |-> "none", reduce_input |-> <<>>, llm_calls |-> 0, result |-> NoResult,
     sent |-> <<>>, final |-> Text(0, 0), chunk_count |-> 0,
     compression_ratio |-> [num |-> 0, den |-> 1]]

VARIABLES
    max_text_length,   \* settings.max_text_length of the API process
    next_id,           \* next task id send_task will issue
    queue,             \* the "summarization" queue of the broker
    redelivered,       \* number of redeliveries so far
    backend,           \* Celery result backend: task id -> task meta
    store,             \* vector store collection: task id -> its two documents
    vs_instance,       \* _vector_store_instance of each process
    wpc,               \* position of each worker in summarize_transcript_task
    wmsg,              \* the message a worker holds unacknowledged
    wres,              \* local variable result of the running task
    wstore,            \* ghost: how the running task's store_summary call went
    fallback_used,     \* ghost: a prompt lookup fell back to templates["comprehensive"]
    engine,            \* one call of TranscriptSummarizer.summarize_transcript
    last               \* the last HTTP response produced by the API process

vars == <<max_text_length, next_id, queue, redelivered, backend, store, vs_instance,
          wpc, wmsg, wres, wstore, fallback_used, engine, last>>

(* ----------------------- models/schemas.py ----------------------------- *)

\* text: str = Field(..., min_length=10, max_length=1000000)
TextFieldOk(t) == TextLen(t) >= SchemaMinLength /\ TextLen(t) <= SchemaMaxLength

\* mutant of validate_text_ok: "if not v" instead of "if not v.strip()"
validate_text_ok_NoStrip(t) == TextLen(t) > 0

\* @validator('text'): "if not v.strip(): raise ValueError"
validate_text_ok(t) == Strip(t).chars > 0

\* @validator('text'): "return v.strip()"
validate_text(t) == Strip(t)

\* mutant of SummaryTypeOk: the field declared str instead of SummaryType
SummaryTypeAny(s) == TRUE

\* summary_type: SummaryType  /  SummaryType(summary_type)
SummaryTypeOk(s) == s \in SummaryType

\* FastAPI builds the SummarizationRequest before the handler runs; a failure is HTTP 422
RequestValid(t, s) == TextFieldOk(t) /\ validate_text_ok(t) /\ SummaryTypeOk(s)

\* TaskStatus values reported for a Celery state (get_task_status's if/elif chain)
StatusOf(state) ==
    CASE state = "PENDING" -> "pending"
      [] state = "PROCESSING" -> "processing"
      [] state = "SUCCESS" -> "completed"
      [] state = "FAILURE" -> "failed"
      [] OTHER -> "pending"

(* --------------------------- HTTP responses ---------------------------- *)

\* seen_* and store_ok are ghost fields: what the backend and the store held for the id
\* when the request was served, and whether the vector store answered the request
BaseResp(op, id, code) ==
    [op |-> op, task_id |-> id, code |-> code, status |-> "", progress |-> -1,
     result |-> NoResult, error_message |-> "", detail |-> "", est |-> -1,
     enqueued |-> 0, text |-> Text(0, 0), style |-> "", store_ok |-> FALSE,
     seen_state |-> IF id \in TaskIds THEN backend[id].state ELSE "",
     seen_issued |-> id \in TaskIds /\ id < next_id,
     seen_stored |-> id \in TaskIds /\ store[id].summary.present]

NoResp ==
    [op |-> "", task_id |-> 0, code |-> 0, status |-> "", progress |-> -1,
     result |-> NoResult, error_message |-> "", detail |-> "", est |-> -1,
     enqueued |-> 0, text |-> Text(0, 0), style |-> "", store_ok |-> FALSE,
     seen_state |-> "", seen_issued |-> FALSE, seen_stored |-> FALSE]

Max(a, b) == IF a >= b THEN a ELSE b

\* mutant of EstimatedTime: no floor of 30 seconds
EstimatedTimeNoFloor(t) == TextLen(t) \div EstimateDivisor

\* estimated_time = max(30, len(request.text) // 1000)
EstimatedTime(t) == Max(MinEstimate, TextLen(t) \div EstimateDivisor)

(* ------------------------------ broker --------------------------------- *)

\* celery_app.send_task("summarize_transcript_task", args=[...], queue="summarization")
Msg(id, t, s, n, via) == [id |-> id, text |-> t, style |-> s, nargs |-> n, via |-> via]

NoMsg == Msg(0, Text(0, 0), "", 0, "")

\* mutant of SendTask: the task goes to a queue no worker consumes
SendTaskWrongQueue(q, m) == q

\* the queue after send_task
SendTask(q, m) == Append(q, m)

(* ------------------------- result backend ------------------------------ *)

Meta(state, progress, result, info) ==
    [state |-> state, progress |-> progress, result |-> result, info |-> info]

\* a task id the backend holds nothing for reads as PENDING
NoMeta == Meta("PENDING", -1, NoResult, "")

\* self.update_state(state=..., meta=...) / the state Celery stores when the task ends
StoreMeta(b, id, meta) == [b EXCEPT ![id] = meta]

(* --------------------------- vector store ------------------------------ *)

NoDocs == [summary |-> NoResult, original |-> FALSE]

\* _vector_store_instance = None (line 290) in a process: instance is the store the global
\* holds (0: None, k: the store of the k-th construction), constructed counts the
\* VectorStore() calls that succeeded, returned is the set of stores get_vector_store has
\* handed out
NoInstance == [instance |-> 0, constructed |-> 0, returned |-> {}]

\* mutant of get_vector_store: a new VectorStore() on every call
get_vector_store_Rebuild(v) ==
    [instance |-> v.constructed + 1, constructed |-> v.constructed + 1,
     returned |-> v.returned \cup {v.constructed + 1}]

\* get_vector_store() returning (lines 293-302): VectorStore() is built when the global is
\* None, and the global is returned. When the construction raises, the call raises and
\* the global stays None: the callers model that case by leaving v as it is
get_vector_store(v) ==
    IF v.instance = 0
      THEN [instance |-> v.constructed + 1, constructed |-> v.constructed + 1,
            returned |-> v.returned \cup {v.constructed + 1}]
      ELSE [v EXCEPT !.returned = @ \cup {v.instance}]

TypeOK ==
    /\ max_text_length \in ConfigMaxChoices
    /\ next_id \in 1..(MaxJobs + 1)
    /\ redelivered \in 0..MaxRedeliver
    /\ DOMAIN backend = TaskIds
    /\ DOMAIN store = TaskIds
    /\ \A p \in Procs : vs_instance[p].instance \in 0..1
    /\ DOMAIN wpc = Workers
    /\ DOMAIN wstore = Workers
    /\ fallback_used \in BOOLEAN
    /\ engine.n \in 0..MaxChunks
    /\ Len(engine.calls) = engine.n
    /\ Len(engine.sent) = engine.n

Init ==
    /\ max_text_length = DefaultMaxTextLength
    /\ next_id = 1
    /\ queue = <<>>
    /\ redelivered = 0
    /\ backend = [id \in TaskIds |-> NoMeta]
    /\ store = [id \in TaskIds |-> NoDocs]
    /\ vs_instance = [p \in Procs |-> NoInstance]
    /\ wpc = [w \in Workers |-> "idle"]
    /\ wmsg = [w \in Workers |-> NoMsg]
    /\ wres = [w \in Workers |-> NoResult]
    /\ wstore = [w \in Workers |-> "none"]
    /\ fallback_used = FALSE
    /\ engine = IdleEngine
    /\ last = NoResp

(* ------------------------- api.py: POST /summarize --------------------- *)

\* mutant of TextTooLong: >= instead of >
TextTooLongOffByOne(t) == TextLen(t) >= max_text_length

\* the handler's own length check: "if len(request.text) > settings.max_text_length"
TextTooLong(t) == TextLen(t) > max_text_length

\* the response leaves with the number of messages the request put on the queue (ghost)
Respond(resp) == last' = [resp EXCEPT !.enqueued = Len(queue') - Len(queue)]

\* POST /summarize with body {text: t, summary_type: s}
summarize_transcript(t, s) ==
    /\ IF ~RequestValid(t, s)
         THEN /\ UNCHANGED <<next_id, queue>>
              /\ Respond([BaseResp("submit", 0, 422) EXCEPT !.text = t, !.style = s])
         ELSE IF TextTooLong(validate_text(t))
         THEN /\ UNCHANGED <<next_id, queue>>
              /\ Respond([BaseResp("submit", 0, 413) EXCEPT
                              !.text = t, !.style = s, !.detail = "Text too long"])
         ELSE /\ next_id <= MaxJobs
              /\ queue' = SendTask(queue, Msg(next_id, validate_text(t), s, 2, "json"))
              /\ next_id' = next_id + 1
              /\ Respond([BaseResp("submit", next_id, 200) EXCEPT
                              !.text = t, !.style = s, !.status = "pending",
                              !.est = EstimatedTime(validate_text(t))])
    /\ UNCHANGED <<max_text_length, engine, wstore, redelivered, backend, store, vs_instance,
                   wpc, wmsg, wres, fallback_used>>

(* ---------------------- api.py: POST /summarize/upload ------------------ *)

\* request_args = [transcript_text, summary_type_enum.value] (+ custom_prompt.strip())
UploadArgCount(custom) == IF custom THEN 3 ELSE 2

\* "if len(content) > 10 * 1024 * 1024", for a file of one-byte characters
FileTooLarge(t) == TextLen(t) > UploadMaxBytes

\* POST /summarize/upload of a .txt file whose decoded content is t, with form fields
\* summary_type = s and custom_prompt (custom: it is non-empty after strip)
summarize_uploaded_file(t, s, custom) ==
    /\ IF FileTooLarge(t)
         THEN /\ UNCHANGED <<next_id, queue>>
              /\ Respond([BaseResp("upload", 0, 413) EXCEPT
                              !.text = t, !.style = s, !.detail = "File too large"])
         ELSE IF Strip(t).chars = 0
         THEN /\ UNCHANGED <<next_id, queue>>
              /\ Respond([BaseResp("upload", 0, 400) EXCEPT
                              !.text = t, !.style = s, !.detail = "File appears to be empty"])
         ELSE IF TextLen(Strip(t)) < UploadMinLength
         THEN /\ UNCHANGED <<next_id, queue>>
              /\ Respond([BaseResp("upload", 0, 400) EXCEPT
                              !.text = t, !.style = s, !.detail = "Transcript too short"])
         ELSE IF ~SummaryTypeOk(s)
         THEN /\ UNCHANGED <<next_id, queue>>
              /\ Respond([BaseResp("upload", 0, 400) EXCEPT
                              !.text = t, !.style = s, !.detail = "Invalid summary type"])
         ELSE /\ next_id <= MaxJobs
              /\ queue' = SendTask(queue,
                                   Msg(next_id, Strip(t), s, UploadArgCount(custom), "upload"))
              /\ next_id' = next_id + 1
              /\ Respond([BaseResp("upload", next_id, 200) EXCEPT
                              !.text = t, !.style = s, !.status = "pending",
                              !.est = EstimatedTime(Strip(t))])
    /\ UNCHANGED <<max_text_length, engine, wstore, redelivered, backend, store, vs_instance,
                   wpc, wmsg, wres, fallback_used>>

(* ---------------------- api.py: GET /status/{task_id} ------------------ *)

\* mutant of StatusResponse: a SUCCESS task reports the progress of its meta, not 100
StatusResponseRawProgress(id) ==
    LET m == backend[id]
        base == BaseResp("getStatus", id, 200)
    IN  CASE m.state = "PENDING" -> [base EXCEPT !.status = "pending"]
          [] m.state = "PROCESSING" ->
                [base EXCEPT !.status = "processing", !.progress = m.progress]
          [] m.state = "SUCCESS" ->
                [base EXCEPT !.status = "completed", !.progress = m.progress,
                             !.result = m.result]
          [] m.state = "FAILURE" ->
                [base EXCEPT !.status = "failed",
                             !.error_message = IF m.info # "" THEN m.info ELSE "Task failed"]
          [] OTHER -> [base EXCEPT !.status = "pending"]

\* the TaskStatusResponse built from task_result = celery_app.AsyncResult(task_id)
StatusResponse(id) ==
    LET m == backend[id]
        base == BaseResp("getStatus", id, 200)
    IN  CASE m.state = "PENDING" -> [base EXCEPT !.status = "pending"]
          [] m.state = "PROCESSING" ->
                [base EXCEPT !.status = "processing", !.progress = m.progress]
          [] m.state = "SUCCESS" ->
                [base EXCEPT !.status = "completed", !.progress = 100, !.result = m.result]
          [] m.state = "FAILURE" ->
                [base EXCEPT !.status = "failed",
                             !.error_message = IF m.info # "" THEN m.info ELSE "Task failed"]
          [] OTHER -> [base EXCEPT !.status = "pending"]

get_task_status(id) ==
    /\ last' = StatusResponse(id)
    /\ UNCHANGED <<max_text_length, engine, wstore, next_id, queue, redelivered, backend, store,
                   vs_instance, wpc, wmsg, wres, fallback_used>>

(* --------------------- api.py: GET /summary/{task_id} ------------------ *)

\* the answer of get_summary once the vector store instance is at hand; found is what
\* vector_store.get_summary(task_id) returned (NoResult for None)
SummaryLookup(id, found) ==
    LET m == backend[id]
        base == BaseResp("getResult", id, 0)
    IN  IF found.present
          THEN [base EXCEPT !.code = 200, !.result = found]
        ELSE IF m.state \in {"PENDING", "PROCESSING"}
          THEN [base EXCEPT !.code = 202, !.detail = "Task is still processing"]
        ELSE IF m.state = "FAILURE"
          THEN [base EXCEPT !.code = 400, !.detail = "Task failed", !.error_message = m.info]
        ELSE [base EXCEPT !.code = 404, !.detail = "Summary not found"]

\* "if task_result.state == 'SUCCESS' and task_result.result: return task_result.result"
CeleryHasResult(id) == backend[id].state = "SUCCESS" /\ backend[id].result.present

\* GET /summary/{id}. up: VectorStore() can be constructed if there is no instance yet;
\* readable: collection.get answers (VectorStore.get_summary returns None when it raises)
get_summary(id, up, readable) ==
    /\ IF CeleryHasResult(id)
         THEN /\ last' = [BaseResp("getResult", id, 200) EXCEPT !.result = backend[id].result]
              /\ UNCHANGED vs_instance
         ELSE IF vs_instance["api"].instance = 0 /\ ~up
         THEN /\ last' = [BaseResp("getResult", id, 500) EXCEPT
                              !.detail = "Failed to retrieve summary"]
              /\ UNCHANGED vs_instance
         ELSE /\ vs_instance' = [vs_instance EXCEPT !["api"] = get_vector_store(@)]
              /\ last' = [SummaryLookup(id, IF readable THEN store[id].summary ELSE NoResult)
                           EXCEPT !.store_ok = readable]
    /\ UNCHANGED <<max_text_length, engine, wstore, next_id, queue, redelivered, backend, store,
                   wpc, wmsg, wres, fallback_used>>

(* ------------------------ core/summarizer.py --------------------------- *)

\* templates.get(summary_type, templates["comprehensive"])
get_summary_prompt(style) == IF style \in TemplateStyles THEN style ELSE "comprehensive"

\* the lookup did not find summary_type among the templates
PromptFallback(style) == style \notin TemplateStyles

\* the SummarizationResult summarize_transcript builds from the final LLM output
MakeResult(t, style, n) ==
    [present |-> TRUE, summary_length |-> n, original_length |-> TextLen(t),
     summary_type |-> style, processing_time |-> FALSE]

\* mutant of CompressionRatio: summary length over original length
CompressionRatioInverted(original, summary) ==
    IF summary > 0 THEN [num |-> summary, den |-> original] ELSE [num |-> 0, den |-> 1]

\* compression_ratio=len(text) / len(summary) if summary else 0, as a fraction
CompressionRatio(original, summary) ==
    IF summary > 0 THEN [num |-> original, den |-> summary] ELSE [num |-> 0, den |-> 1]

\* everything but the summarizer's own state
pipeline ==
    <<max_text_length, next_id, queue, redelivered, backend, store, vs_instance,
      wpc, wmsg, wres, wstore, fallback_used, last>>

\* the numbers of documents text_splitter.split_text may produce for a text: none for a
\* text that is empty after strip, one for a text that fits a chunk, and otherwise at least
\* as many chunks of at most chunk_size characters as it takes to cover the text
SplitCounts(t) ==
    IF Strip(t).chars = 0 THEN {0}
    ELSE IF TextLen(t) <= ChunkSize THEN {1}
    ELSE { k \in 2..MaxChunks : k * ChunkSize >= Strip(t).chars }

\* the page_content of the document when split_text returns exactly one: the splitter
\* strips the whitespace around every chunk it emits
SingleDocument(t) == Strip(t)

\* raw outputs of llm.invoke: five characters followed by a newline, a newline alone, a
\* hundred characters
LLMAnswers == { Text(5, 1), Text(0, 1), Text(100, 0) }

\* texts and styles summarize_transcript is called with
EngineTexts ==
    { Text(0, 0), Text(0, 5), Text(40, 0), Text(100, 2), Text(1000, 0),
      Text(ChunkSize + 1000, 0) }
EngineStyles == { "brief" }

\* the summarizer right after summarize_transcript(t, style) is entered
CalledEngine(t, style) == [IdleEngine EXCEPT !.pc = "called", !.text = t, !.style = style]

\* mutant of Batch: documents[i:] instead of documents[i:i + batch_size]
BatchAll(i, n) == { k \in 1..n : k > i }

\* batch = documents[i:i + batch_size], as 1-based document numbers
Batch(i, n) == { k \in 1..n : k > i /\ k <= i + BatchSize }

\* the LLM calls that have been started and have not ended
Running == { k \in 1..engine.n : engine.calls[k] = "running" }

\* mutant of GatherResults: the results in the order the calls completed
GatherAsCompleted(i, n, answers, completed) ==
    [j \in 1..Len(completed) |-> [chunk |-> completed[j], text |-> answers[completed[j]]]]

\* batch_results = await asyncio.gather(*batch_tasks): the results in the order of the tasks
GatherResults(i, n, answers, completed) ==
    [j \in 1..Cardinality(Batch(i, n)) |-> [chunk |-> i + j, text |-> answers[i + j]]]

\* [result.strip() for result in batch_results]
StripResults(results) == [j \in DOMAIN results |-> [results[j] EXCEPT !.text = Strip(@)]]

\* lines 57-64: documents = self._create_documents(text); one document goes to
\* _summarize_single_chunk, any other number to _summarize_multiple_chunks
create_documents ==
    /\ engine.pc = "called"
    /\ \E n \in SplitCounts(engine.text) :
          engine' = [engine EXCEPT
                        !.n = n,
                        !.calls = [k \in 1..n |-> "none"],
                        !.sent = [k \in 1..n |-> 0],
                        !.answers = [k \in 1..n |-> Text(0, 0)],
                        !.pc = IF n = 1 THEN "single" ELSE "batch"]
    /\ UNCHANGED pipeline

\* _summarize_single_chunk lines 92-99: the LLM call is started
SingleStart ==
    /\ engine.pc = "single"
    /\ engine' = [engine EXCEPT !.calls[1] = "running", !.sent[1] = @ + 1,
                                !.llm_calls = @ + 1,
                                !.pc = "single_wait"]
    /\ UNCHANGED pipeline

\* lines 96-101 and 66-79: the call returns a, the result is built from a.strip()
SingleReturn(a) ==
    /\ engine.pc = "single_wait"
    /\ engine' = [engine EXCEPT
                     !.calls[1] = "returned", !.answers[1] = a, !.final = a,
                     !.result = MakeResult(engine.text, engine.style, TextLen(Strip(a))),
                     !.chunk_count = engine.n,
                     !.compression_ratio =
                         CompressionRatio(TextLen(engine.text), TextLen(Strip(a))),
                     !.pc = "done"]
    /\ UNCHANGED pipeline

\* lines 96-99 raising, lines 81-83: the error leaves summarize_transcript
SingleFail ==
    /\ engine.pc = "single_wait"
    /\ engine' = [engine EXCEPT !.calls[1] = "failed", !.pc = "raised"]
    /\ UNCHANGED pipeline

\* lines 113-122: one run_in_executor per document of the batch
StartBatch ==
    /\ engine.pc = "batch"
    /\ engine.i < engine.n
    /\ engine' = [engine EXCEPT
                     !.calls = [k \in 1..engine.n |->
                                   IF k \in Batch(engine.i, engine.n) THEN "running" ELSE @[k]],
                     !.sent = [k \in 1..engine.n |->
                                  IF k \in Batch(engine.i, engine.n) THEN @[k] + 1 ELSE @[k]],
                     !.llm_calls = @ + Cardinality(Batch(engine.i, engine.n)),
                     !.completed = <<>>,
                     !.pc = "gather"]
    /\ UNCHANGED pipeline

\* the executor thread of document k ends: llm.invoke returned a
LLMReturn(k, a) ==
    /\ engine.pc \in {"gather", "raised"}
    /\ k \in Running
    /\ engine' = [engine EXCEPT !.calls[k] = "returned", !.answers[k] = a,
                                !.completed = Append(@, k)]
    /\ UNCHANGED pipeline

\* the executor thread of document k ends: llm.invoke raised
LLMFail(k) ==
    /\ engine.pc \in {"gather", "raised"}
    /\ k \in Running
    /\ engine' = [engine EXCEPT !.calls[k] = "failed"]
    /\ UNCHANGED pipeline

\* line 124-125: every call of the batch has returned; gather hands the results over and
\* their stripped forms are appended to chunk_summaries
GatherReturn ==
    /\ engine.pc = "gather"
    /\ \A k \in Batch(engine.i, engine.n) : engine.calls[k] = "returned"
    /\ engine' = [engine EXCEPT
                     !.chunk_summaries =
                         @ \o StripResults(GatherResults(engine.i, engine.n,
                                                         engine.answers, engine.completed)),
                     !.pc = "sleep"]
    /\ UNCHANGED pipeline

\* mutant of GatherRaise: gather(..., return_exceptions=True), the failed call is skipped
\* once the batch has ended
GatherSwallow ==
    /\ engine.pc = "gather"
    /\ \E k \in Batch(engine.i, engine.n) : engine.calls[k] = "failed"
    /\ Running = {}
    /\ engine' = [engine EXCEPT !.pc = "sleep"]
    /\ UNCHANGED pipeline

\* line 124 raising: gather re-raises the first failure of a call of the batch at once,
\* the other calls of the batch keep running in their threads; lines 81-83 pass it on
GatherRaise ==
    /\ engine.pc = "gather"
    /\ \E k \in Batch(engine.i, engine.n) : engine.calls[k] = "failed"
    /\ engine' = [engine EXCEPT !.pc = "raised"]
    /\ UNCHANGED pipeline

\* mutant of BatchSleep: the next batch starts at the last document of this one
BatchSleepOverlap ==
    /\ engine.pc = "sleep"
    /\ engine' = [engine EXCEPT !.i = @ + BatchSize - 1, !.pc = "batch"]
    /\ UNCHANGED pipeline

\* line 128 and the next turn of the for loop
BatchSleep ==
    /\ engine.pc = "sleep"
    /\ engine' = [engine EXCEPT !.i = @ + BatchSize, !.pc = "batch"]
    /\ UNCHANGED pipeline

\* lines 131-137: the for loop has ended; the reduce call is started on the joined
\* chunk summaries
ReduceStart ==
    /\ engine.pc = "batch"
    /\ engine.i >= engine.n
    /\ engine' = [engine EXCEPT !.reduce_input = engine.chunk_summaries,
                                !.reduce = "running", !.llm_calls = @ + 1,
                                !.pc = "reduce_wait"]
    /\ UNCHANGED pipeline

\* lines 134-139 and 66-79: the reduce call returns a, the result is built from a.strip()
ReduceReturn(a) ==
    /\ engine.pc = "reduce_wait"
    /\ engine' = [engine EXCEPT
                     !.reduce = "returned", !.final = a,
                     !.result = MakeResult(engine.text, engine.style, TextLen(Strip(a))),
                     !.chunk_count = engine.n,
                     !.compression_ratio =
                         CompressionRatio(TextLen(engine.text), TextLen(Strip(a))),
                     !.pc = "done"]
    /\ UNCHANGED pipeline

\* lines 134-137 raising, lines 81-83: the error leaves summarize_transcript
ReduceFail ==
    /\ engine.pc = "reduce_wait"
    /\ engine' = [engine EXCEPT !.reduce = "failed", !.pc = "raised"]
    /\ UNCHANGED pipeline

(* ------------------------------ worker.py ------------------------------ *)

\* def summarize_transcript_task(self, text, summary_type="comprehensive"): the positional
\* arguments of the message fit the signature
ArgsFit(m) == m.nargs \in {1, 2}

\* update_state(state="PROCESSING", meta={"progress": p, ...})
ProcessingMeta(p) == Meta("PROCESSING", p, NoResult, "")

\* mutant of FailureMeta: the error message is dropped
FailureMetaNoMessage(err) == Meta("FAILURE", -1, NoResult, "")

\* update_state(state="FAILURE", meta={"error": str(e), ...}) followed by raise
FailureMeta(err) == Meta("FAILURE", -1, NoResult, err)

\* the dictionary the task returns, stored by Celery with state SUCCESS
SuccessMeta(r) == Meta("SUCCESS", -1, [r EXCEPT !.processing_time = TRUE], "")

\* task_acks_late=True: the message stays unacknowledged while the task runs
Unacked(w) == wpc[w] # "idle"

\* the task body of worker w is running
Executing(w) == wpc[w] \notin {"idle", "received"}

\* worker_prefetch_multiplier=1: an idle worker takes the head of the queue
Deliver(w) ==
    /\ wpc[w] = "idle"
    /\ queue # <<>>
    /\ wmsg' = [wmsg EXCEPT ![w] = Head(queue)]
    /\ queue' = Tail(queue)
    /\ wpc' = [wpc EXCEPT ![w] = "received"]
    /\ UNCHANGED <<max_text_length, engine, wstore, next_id, redelivered, backend, store, vs_instance,
                   wres, fallback_used, last>>

\* task_acks_late=True with the Redis broker (celery_broker_url): a message that stays
\* unacknowledged past the visibility timeout is put back on the queue while its task runs
Redeliver(w) ==
    /\ Unacked(w)
    /\ redelivered < MaxRedeliver
    /\ queue' = Append(queue, wmsg[w])
    /\ redelivered' = redelivered + 1
    /\ UNCHANGED <<max_text_length, engine, wstore, next_id, backend, store, vs_instance,
                   wpc, wmsg, wres, fallback_used, last>>

\* the acknowledgement after the task ended
Ack(w) ==
    /\ wpc' = [wpc EXCEPT ![w] = "idle"]
    /\ wmsg' = [wmsg EXCEPT ![w] = NoMsg]
    /\ wres' = [wres EXCEPT ![w] = NoResult]
    /\ wstore' = [wstore EXCEPT ![w] = "none"]

\* Celery calls the task with the message's args; a TypeError of the call ends the task
\* FAILURE before its body runs. Otherwise lines 55-66: update_state(PROCESSING, 0)
TaskStart(w) ==
    /\ wpc[w] = "received"
    /\ IF ArgsFit(wmsg[w])
         THEN /\ backend' = StoreMeta(backend, wmsg[w].id, ProcessingMeta(0))
              /\ wpc' = [wpc EXCEPT ![w] = "p0"]
              /\ UNCHANGED <<wmsg, wres, wstore>>
         ELSE /\ backend' = StoreMeta(backend, wmsg[w].id, FailureMeta("TypeError"))
              /\ Ack(w)
    /\ UNCHANGED <<max_text_length, engine, next_id, queue, redelivered, store, vs_instance,
                   fallback_used, last>>

\* _run_summarization lines 128-134: progress 10, create_summarizer()
Progress10(w) ==
    /\ wpc[w] = "p0"
    /\ backend' = StoreMeta(backend, wmsg[w].id, ProcessingMeta(10))
    /\ wpc' = [wpc EXCEPT ![w] = "p10"]
    /\ UNCHANGED <<max_text_length, engine, wstore, next_id, queue, redelivered, store, vs_instance,
                   wmsg, wres, fallback_used, last>>

\* _run_summarization lines 136-140: progress 20
Progress20(w) ==
    /\ wpc[w] = "p10"
    /\ backend' = StoreMeta(backend, wmsg[w].id, ProcessingMeta(20))
    /\ wpc' = [wpc EXCEPT ![w] = "p20"]
    /\ UNCHANGED <<max_text_length, engine, wstore, next_id, queue, redelivered, store, vs_instance,
                   wmsg, wres, fallback_used, last>>

\* line 142: result = await summarizer.summarize_transcript(text, summary_type); the LLM
\* answers with a summary of n characters
SummarizeOk(w, n) ==
    /\ wpc[w] = "p20"
    /\ wres' = [wres EXCEPT ![w] = MakeResult(wmsg[w].text, wmsg[w].style, n)]
    /\ fallback_used' = (fallback_used \/ PromptFallback(wmsg[w].style))
    /\ wpc' = [wpc EXCEPT ![w] = "summarized"]
    /\ UNCHANGED <<max_text_length, engine, wstore, next_id, queue, redelivered, backend, store,
                   vs_instance, wmsg, last>>

\* line 142 raising: an LLM call failed; control reaches "except Exception" (line 98)
SummarizeFail(w) ==
    /\ wpc[w] = "p20"
    /\ fallback_used' = (fallback_used \/ PromptFallback(wmsg[w].style))
    /\ wpc' = [wpc EXCEPT ![w] = "except"]
    /\ UNCHANGED <<max_text_length, engine, wstore, next_id, queue, redelivered, backend, store,
                   vs_instance, wmsg, wres, last>>

\* lines 144-148: progress 90
Progress90(w) ==
    /\ wpc[w] = "summarized"
    /\ backend' = StoreMeta(backend, wmsg[w].id, ProcessingMeta(90))
    /\ wpc' = [wpc EXCEPT ![w] = "p90"]
    /\ UNCHANGED <<max_text_length, engine, wstore, next_id, queue, redelivered, store, vs_instance,
                   wmsg, wres, fallback_used, last>>

\* collection.add(ids=[doc_id]) leaves a document that is already there as it is
AddSummary(docs, r) == IF docs.summary.present THEN docs ELSE [docs EXCEPT !.summary = r]

\* VectorStore.store_summary: the summary document, then the original text; outcome is
\* how far it got before collection.add raised
store_summary(docs, r, outcome) ==
    CASE outcome = "add_failed" -> docs
      [] outcome = "partial" -> AddSummary(docs, r)
      [] outcome = "ok" -> [AddSummary(docs, r) EXCEPT !.original = TRUE]

StoreOutcomes == {"no_store", "add_failed", "partial", "ok"}

\* mutant of Existing: only the summary document is looked up
ExistingSummaryOnly(docs) == IF docs.summary.present THEN {"summary"} ELSE {}

\* existing["ids"] of collection.get(ids=[summary_<id>, original_<id>])
Existing(docs) ==
    (IF docs.summary.present THEN {"summary"} ELSE {})
        \cup (IF docs.original THEN {"original"} ELSE {})

\* collection.delete(ids=ids)
DeleteDocs(docs, ids) ==
    [summary |-> IF "summary" \in ids THEN NoResult ELSE docs.summary,
     original |-> IF "original" \in ids THEN FALSE ELSE docs.original]

\* VectorStore.get_summary: None when the summary document is not there or when
\* collection.get raises
VsGetSummary(docs, readable) == IF readable THEN docs.summary ELSE NoResult

\* how the collection answers delete_summary: both calls answer, collection.get raises,
\* collection.delete raises
DeleteOutcomes == {"ok", "get_raises", "delete_raises"}

\* results and outcomes of direct store_summary calls
StoredResults == { MakeResult(Text(100, 0), "brief", 5), MakeResult(Text(60, 2), "brief", 5) }
AddOutcomes == {"add_failed", "partial", "ok"}

\* the response record of a call on the storage module made by process p
StoreResp(op, p, id) ==
    [op |-> op, proc |-> p, task_id |-> id, outcome |-> "", raised |-> FALSE,
     returned |-> FALSE, instance |-> 0, held |-> 0, delete_issued |-> FALSE,
     before |-> NoDocs, after |-> NoDocs, result |-> NoResult]

\* a call of get_vector_store() in process p; up: VectorStore() succeeds if it is tried
GetVectorStore(p, up) ==
    /\ IF vs_instance[p].instance = 0 /\ ~up
         THEN /\ last' = [StoreResp("get_vector_store", p, 0) EXCEPT !.raised = TRUE]
              /\ UNCHANGED vs_instance
         ELSE /\ vs_instance' = [vs_instance EXCEPT ![p] = get_vector_store(@)]
              /\ last' = [StoreResp("get_vector_store", p, 0) EXCEPT
                              !.held = vs_instance[p].instance,
                              !.instance = vs_instance'[p].instance]
    /\ UNCHANGED <<max_text_length, engine, wstore, next_id, queue, redelivered, backend, store,
                   wpc, wmsg, wres, fallback_used>>

\* VectorStore.store_summary (lines 58-122) called by a process that holds the store
VsStoreSummary(p, id, r, outcome) ==
    /\ vs_instance[p].instance # 0
    /\ store' = [store EXCEPT ![id] = store_summary(@, r, outcome)]
    /\ last' = [StoreResp("store_summary", p, id) EXCEPT
                    !.outcome = outcome, !.raised = (outcome # "ok"),
                    !.before = store[id], !.after = store'[id]]
    /\ UNCHANGED <<max_text_length, engine, wstore, next_id, queue, redelivered, backend,
                   vs_instance, wpc, wmsg, wres, fallback_used>>

\* VectorStore.delete_summary (lines 244-270) called by a process that holds the store
delete_summary(p, id, outcome) ==
    /\ vs_instance[p].instance # 0
    /\ outcome = "delete_raises" => Existing(store[id]) # {}
    /\ LET found == outcome = "ok" /\ Existing(store[id]) # {}
       IN  /\ store' = [store EXCEPT
                           ![id] = IF found THEN DeleteDocs(@, Existing(@)) ELSE @]
           /\ last' = [StoreResp("delete_summary", p, id) EXCEPT
                           !.outcome = outcome,
                           !.returned = found,
                           !.delete_issued = (outcome # "get_raises"
                                                 /\ Existing(store[id]) # {}),
                           !.before = store[id], !.after = store'[id]]
    /\ UNCHANGED <<max_text_length, engine, wstore, next_id, queue, redelivered, backend,
                   vs_instance, wpc, wmsg, wres, fallback_used>>

\* VectorStore.get_summary (lines 124-164) called by a process that holds the store
vs_get_summary(p, id, readable) ==
    /\ vs_instance[p].instance # 0
    /\ last' = [StoreResp("vs_get_summary", p, id) EXCEPT
                    !.outcome = IF readable THEN "ok" ELSE "get_raises",
                    !.before = store[id], !.after = store[id],
                    !.result = VsGetSummary(store[id], readable)]
    /\ UNCHANGED <<max_text_length, engine, wstore, next_id, queue, redelivered, backend, store,
                   vs_instance, wpc, wmsg, wres, fallback_used>>

\* mutant of StoreResult: no try/except around the store call, a failure reaches the
\* task's "except Exception"
StoreResultFatal(w, outcome) ==
    /\ wpc[w] = "p90"
    /\ IF outcome = "no_store"
         THEN /\ vs_instance[w].instance = 0
              /\ UNCHANGED <<vs_instance, store>>
         ELSE /\ vs_instance' = [vs_instance EXCEPT ![w] = get_vector_store(@)]
              /\ store' = [store EXCEPT
                              ![wmsg[w].id] = store_summary(@, wres[w], outcome)]
    /\ wstore' = [wstore EXCEPT ![w] = outcome]
    /\ wpc' = [wpc EXCEPT ![w] = IF outcome = "ok" THEN "stored" ELSE "except"]
    /\ UNCHANGED <<max_text_length, engine, next_id, queue, redelivered, backend,
                   wmsg, wres, fallback_used, last>>

\* lines 150-156: try: get_vector_store(); store_summary(...) except Exception: log
StoreResult(w, outcome) ==
    /\ wpc[w] = "p90"
    /\ IF outcome = "no_store"
         THEN /\ vs_instance[w].instance = 0
              /\ UNCHANGED <<vs_instance, store>>
         ELSE /\ vs_instance' = [vs_instance EXCEPT ![w] = get_vector_store(@)]
              /\ store' = [store EXCEPT
                              ![wmsg[w].id] = store_summary(@, wres[w], outcome)]
    /\ wstore' = [wstore EXCEPT ![w] = outcome]
    /\ wpc' = [wpc EXCEPT ![w] = "stored"]
    /\ UNCHANGED <<max_text_length, engine, next_id, queue, redelivered, backend,
                   wmsg, wres, fallback_used, last>>

\* lines 158-161: progress 100
Progress100(w) ==
    /\ wpc[w] = "stored"
    /\ backend' = StoreMeta(backend, wmsg[w].id, ProcessingMeta(100))
    /\ wpc' = [wpc EXCEPT ![w] = "p100"]
    /\ UNCHANGED <<max_text_length, engine, wstore, next_id, queue, redelivered, store, vs_instance,
                   wmsg, wres, fallback_used, last>>

\* lines 79-96: processing_time is attached, the task returns, Celery stores SUCCESS
TaskReturn(w) ==
    /\ wpc[w] = "p100"
    /\ backend' = StoreMeta(backend, wmsg[w].id, SuccessMeta(wres[w]))
    /\ Ack(w)
    /\ UNCHANGED <<max_text_length, engine, next_id, queue, redelivered, store, vs_instance,
                   fallback_used, last>>

\* lines 98-104: update_state(state="FAILURE", meta={"error": str(e), ...})
TaskExcept(w) ==
    /\ wpc[w] = "except"
    /\ backend' = StoreMeta(backend, wmsg[w].id, FailureMeta("LLMError"))
    /\ wpc' = [wpc EXCEPT ![w] = "raise"]
    /\ UNCHANGED <<max_text_length, engine, wstore, next_id, queue, redelivered, store, vs_instance,
                   wmsg, wres, fallback_used, last>>

\* line 107: raise; Celery stores FAILURE with the exception
TaskRaise(w) ==
    /\ wpc[w] = "raise"
    /\ backend' = StoreMeta(backend, wmsg[w].id, FailureMeta("LLMError"))
    /\ Ack(w)
    /\ UNCHANGED <<max_text_length, engine, next_id, queue, redelivered, store, vs_instance,
                   fallback_used, last>>

\* one step of worker w
WorkerStep(w) ==
    \/ Deliver(w)
    \/ TaskStart(w)
    \/ Progress10(w)
    \/ Progress20(w)
    \/ \E n \in SummaryLengths : SummarizeOk(w, n)
    \/ SummarizeFail(w)
    \/ Progress90(w)
    \/ \E o \in StoreOutcomes : StoreResult(w, o)
    \/ Progress100(w)
    \/ TaskReturn(w)
    \/ TaskExcept(w)
    \/ TaskRaise(w)

(* --------------------------- specifications --------------------------- *)

\* requests the clients of the running pipeline send
PipelineTexts == { Text(10, 0) }
PipelineStyles == { "brief", "invalid_type" }
PipelineUploads == { Text(60, 2) }

\* the submission endpoints
Submission ==
    \/ \E t \in PipelineTexts, s \in PipelineStyles : summarize_transcript(t, s)
    \/ \E t \in PipelineUploads : summarize_uploaded_file(t, "brief", TRUE)

\* the query endpoints
Query ==
    \/ \E id \in TaskIds : get_task_status(id)
    \/ \E id \in TaskIds, up \in BOOLEAN, r \in BOOLEAN : get_summary(id, up, r)

\* the broker and the workers
Execution ==
    \/ \E w \in Workers : WorkerStep(w)
    \/ \E w \in Workers : Redeliver(w)

\* the whole service
Next == Submission \/ Query \/ Execution

Spec == Init /\ [][Next]_vars

\* submission and execution without the query endpoints, which change nothing a worker
\* or the broker reads
PipelineNext == Submission \/ Execution

PipelineSpec == Init /\ [][PipelineNext]_vars

\* the requests the submission endpoints accept; a rejected request changes nothing but
\* the response
AcceptedSubmission ==
    \/ \E t \in PipelineTexts : summarize_transcript(t, "brief")
    \/ \E t \in PipelineUploads : summarize_uploaded_file(t, "brief", TRUE)

FairPipelineNext == AcceptedSubmission \/ Execution

\* a started worker keeps running, and an idle one keeps consuming the queue
FairPipelineSpec ==
    Init /\ [][FairPipelineNext]_vars /\ \A w \in Workers : WF_vars(WorkerStep(w))

\* the steps of worker w that are the worker's own: every step but the end of the LLM
\* calls of line 142, which is the LLM server's to take
WorkerControl(w) ==
    \/ Deliver(w)
    \/ TaskStart(w)
    \/ Progress10(w)
    \/ Progress20(w)
    \/ Progress90(w)
    \/ \E o \in StoreOutcomes : StoreResult(w, o)
    \/ Progress100(w)
    \/ TaskReturn(w)
    \/ TaskExcept(w)
    \/ TaskRaise(w)

\* the pipeline with workers scheduled fairly and an LLM server that may never answer:
\* OllamaLLM is built without a timeout (summarizer.py lines 25-30), the calls of lines
\* 96-99 and 118-124 are awaited without one, the task has no time limit, and
\* settings.request_timeout is read nowhere
HangingLLMSpec ==
    Init /\ [][FairPipelineNext]_vars /\ \A w \in Workers : WF_vars(WorkerControl(w))

\* processes calling the storage module directly
StoreNext ==
    \/ \E p \in Procs, up \in BOOLEAN : GetVectorStore(p, up)
    \/ \E p \in Procs, id \in TaskIds, r \in StoredResults, o \in AddOutcomes :
          VsStoreSummary(p, id, r, o)
    \/ \E p \in Procs, id \in TaskIds, o \in DeleteOutcomes : delete_summary(p, id, o)
    \/ \E p \in Procs, id \in TaskIds, r \in BOOLEAN : vs_get_summary(p, id, r)

StoreSpec == Init /\ [][StoreNext]_vars

\* the submission endpoints alone, over every kind of request and both configurations
SubmitInit ==
    /\ max_text_length = DefaultMaxTextLength
    /\ next_id = 1
    /\ queue = <<>>
    /\ redelivered = 0
    /\ backend = [id \in TaskIds |-> NoMeta]
    /\ store = [id \in TaskIds |-> NoDocs]
    /\ vs_instance = [p \in Procs |-> NoInstance]
    /\ wpc = [w \in Workers |-> "idle"]
    /\ wmsg = [w \in Workers |-> NoMsg]
    /\ wres = [w \in Workers |-> NoResult]
    /\ wstore = [w \in Workers |-> "none"]
    /\ fallback_used = FALSE
    /\ engine = IdleEngine
    /\ last = NoResp

SubmitNext ==
    \/ \E t \in SubmitTexts, s \in StyleInputs : summarize_transcript(t, s)
    \/ \E t \in UploadTexts, s \in StyleInputs, c \in BOOLEAN :
          summarize_uploaded_file(t, s, c)

SubmitSpec == SubmitInit /\ [][SubmitNext]_vars

\* one call of summarize_transcript, for every text and style it may be called with
EngineInit ==
    /\ max_text_length = DefaultMaxTextLength
    /\ next_id = 1
    /\ queue = <<>>
    /\ redelivered = 0
    /\ backend = [id \in TaskIds |-> NoMeta]
    /\ store = [id \in TaskIds |-> NoDocs]
    /\ vs_instance = [p \in Procs |-> NoInstance]
    /\ wpc = [w \in Workers |-> "idle"]
    /\ wmsg = [w \in Workers |-> NoMsg]
    /\ wres = [w \in Workers |-> NoResult]
    /\ wstore = [w \in Workers |-> "none"]
    /\ fallback_used = FALSE
    /\ engine \in { CalledEngine(t, s) : t \in EngineTexts, s \in EngineStyles }
    /\ last = NoResp

EngineNext ==
    \/ create_documents
    \/ SingleStart
    \/ \E a \in LLMAnswers : SingleReturn(a)
    \/ SingleFail
    \/ StartBatch
    \/ \E k \in 1..MaxChunks, a \in LLMAnswers : LLMReturn(k, a)
    \/ \E k \in 1..MaxChunks : LLMFail(k)
    \/ GatherReturn
    \/ GatherRaise
    \/ BatchSleep
    \/ ReduceStart
    \/ \E a \in LLMAnswers : ReduceReturn(a)
    \/ ReduceFail

EngineSpec == EngineInit /\ [][EngineNext]_vars

(* ------------------------------- claims -------------------------------- *)

Terminal == {"completed", "failed"}

\* the status get_task_status reports for id in the current state
Status(id) == StatusResponse(id).status

\* send_task has issued id
Issued(id) == id < next_id

\* the messages on the queue
Queued == { queue[i] : i \in 1..Len(queue) }

\* the messages on the queue or held by a worker
InFlight == Queued \cup { wmsg[w] : w \in { x \in Workers : wpc[x] # "idle" } }

\* C1 (as claimed): a job is PENDING when it is submitted, never goes back from PROCESSING
\* to PENDING, and once it is COMPLETED or FAILED every later getStatus shows that status
C1_StatusOrder ==
    [][\A id \in 1..MaxJobs :
          /\ (~Issued(id) /\ Issued(id)') => Status(id)' = "pending"
          /\ Status(id) = "processing" => Status(id)' # "pending"
          /\ Status(id) \in Terminal => Status(id)' = Status(id)]_vars

\* C2 (as claimed): no two workers execute the same job id at the same time
C2_SingleWorker ==
    \A w1 \in Workers, w2 \in Workers :
        (w1 # w2 /\ Executing(w1) /\ Executing(w2)) => wmsg[w1].id # wmsg[w2].id

\* the last response answers POST /summarize
IsSubmit == last.op = "submit"

\* the submission was accepted: one message on the queue, its id returned with status PENDING
Accepted ==
    /\ last.code = 200
    /\ last.enqueued = 1
    /\ last.status = "pending"
    /\ last.task_id \in 1..MaxJobs

\* C3 (as claimed): a text that is non-empty after trimming and no longer than the
\* configured maximum, with a style of the enum, is accepted by POST /summarize
C3_Original ==
    (/\ IsSubmit
     /\ Strip(last.text).chars > 0
     /\ TextLen(last.text) <= max_text_length
     /\ last.style \in {"comprehensive", "brief", "key_points"})
    => Accepted

\* C3 (amended): a text of 10 to 1000000 characters that is non-empty after trimming and
\* whose trimmed form is no longer than the configured maximum, with a style of the enum,
\* is accepted by POST /summarize: exactly one message, carrying the trimmed text and the
\* style, is put on the queue and its id is returned with status PENDING
C3_AcceptedWhenValid ==
    (/\ IsSubmit
     /\ TextLen(last.text) >= 10
     /\ TextLen(last.text) <= 1000000
     /\ Strip(last.text).chars > 0
     /\ Strip(last.text).chars <= max_text_length
     /\ last.style \in {"comprehensive", "brief", "key_points"})
    => /\ Accepted
       /\ queue # <<>>
       /\ queue[Len(queue)] =
              Msg(last.task_id, Text(last.text.chars, 0), last.style, 2, "json")
       /\ Len(queue) = next_id - 1

\* C3 witness: a padded text of exactly the maximum accepted length was accepted
C3_Witness ==
    /\ IsSubmit
    /\ last.code = 200
    /\ TextLen(last.text) = 1000000
    /\ last.enqueued = 1

\* C4: every job accepted by a submission endpoint eventually reaches COMPLETED or FAILED,
\* when the workers are scheduled fairly and every LLM call returns or raises
C4_EventuallyTerminal ==
    \A id \in 1..MaxJobs : Issued(id) ~> (Status(id) \in Terminal)

\* C4 witness: a job accepted by POST /summarize was executed to a terminal status and
\* nothing is left to run
C4_Witness ==
    \E id \in 1..MaxJobs :
        /\ Issued(id)
        /\ Status(id) \in Terminal
        /\ \A w \in Workers : wpc[w] = "idle"
        /\ queue = <<>>

\* C5 (as claimed): a text longer than the configured maximum is answered 413 with a
\* detail containing "too long", and nothing is put on the queue
C5_TooLong413 ==
    (/\ IsSubmit
     /\ TextLen(last.text) > max_text_length
     /\ last.style \in {"comprehensive", "brief", "key_points"})
    => /\ last.code = 413
       /\ last.detail = "Text too long"
       /\ last.enqueued = 0

\* C6: a text that is empty or only whitespace is answered 422 and nothing is put on the
\* queue; no message from POST /summarize on the queue carries an empty text
C6_EmptyRejected ==
    /\ (IsSubmit /\ last.text.chars = 0) => (last.code = 422 /\ last.enqueued = 0)
    /\ \A m \in Queued : m.via = "json" => m.text.chars > 0
    /\ Len(queue) = next_id - 1

\* C6 witness: a whitespace-only text long enough to pass min_length was rejected
C6_Witness ==
    /\ IsSubmit
    /\ last.text.chars = 0
    /\ last.text.pad >= 10
    /\ last.code = 422

\* C7: a style outside the enum is answered 422 and nothing is put on the queue; no
\* message in flight carries such a style and no prompt lookup takes the fallback
C7_InvalidStyleRejected ==
    /\ (IsSubmit /\ last.style \notin {"comprehensive", "brief", "key_points"})
          => (last.code = 422 /\ last.enqueued = 0)
    /\ \A m \in InFlight : m.style \in {"comprehensive", "brief", "key_points"}
    /\ ~fallback_used

\* C7 witness: a request with an invalid style was rejected after a job went through the
\* prompt layer
C7_Witness ==
    /\ IsSubmit
    /\ last.style = "invalid_type"
    /\ last.code = 422
    /\ \E id \in 1..MaxJobs : backend[id].state = "SUCCESS"

\* the last response answers GET /summary/{id}
IsGetResult == last.op = "getResult"

\* C8 (as claimed, for a store that answers): getResult for a job that is PENDING or
\* PROCESSING is answered 202 and carries no summary, whatever the store holds
C8_NotReady ==
    (/\ IsGetResult
     /\ last.seen_issued
     /\ last.store_ok
     /\ last.seen_state \in {"PENDING", "PROCESSING"})
    => (last.code = 202 /\ ~last.result.present)

\* C9 (as claimed): getResult for a FAILED job fails with the job's stored error message
\* and carries no summary
C9_FailedGivesError ==
    (/\ IsGetResult
     /\ last.seen_issued
     /\ last.seen_state = "FAILURE")
    => (last.code = 400 /\ last.error_message # "" /\ ~last.result.present)

\* C10 (as claimed, for a store that answers): getResult for an id that was never issued
\* and that the store holds nothing for is answered 404
C10_UnknownNotFound ==
    (/\ IsGetResult
     /\ ~last.seen_issued
     /\ last.store_ok
     /\ ~last.seen_stored)
    => last.code = 404

\* the last response answers GET /status/{id}
IsGetStatus == last.op = "getStatus"

\* C11 (as claimed): getStatus for an id that was never issued is answered 404
C11_StatusUnknownNotFound ==
    (IsGetStatus /\ ~last.seen_issued) => last.code = 404

\* C12: in every response getStatus gives, for any id and in any state of the pipeline,
\* the result is present exactly when the status is COMPLETED and the error message exactly
\* when it is FAILED; a COMPLETED response reports progress 100 and a PENDING response no
\* progress
C12_StatusFields ==
    \A id \in TaskIds :
        LET r == StatusResponse(id)
        IN  /\ r.code = 200
            /\ r.result.present <=> r.status = "completed"
            /\ r.error_message # "" <=> r.status = "failed"
            /\ r.status = "completed" => r.progress = 100
            /\ r.status = "pending" => r.progress = -1

\* C12 witness: a job that ran to SUCCESS is reported COMPLETED with its result and
\* progress 100
C12_Witness ==
    \E id \in 1..MaxJobs :
        /\ backend[id].state = "SUCCESS"
        /\ StatusResponse(id).status = "completed"
        /\ StatusResponse(id).result.present
        /\ StatusResponse(id).progress = 100

\* the progress getStatus reports for id in the current state
Progress(id) == StatusResponse(id).progress

\* C13 (as claimed): while a job is PROCESSING its reported progress is within 0..100,
\* is 0 when the job enters PROCESSING and never decreases from one update to the next
C13_ProgressMonotone ==
    [][\A id \in 1..MaxJobs :
          /\ Status(id) = "processing" => Progress(id) \in 0..100
          /\ (Status(id) = "pending" /\ Status(id)' = "processing") => Progress(id)' = 0
          /\ (Status(id) = "processing" /\ Status(id)' = "processing")
                => Progress(id)' >= Progress(id)]_vars

\* the store call of the execution running on w failed (no store, or collection.add raised)
StoreFailed(w) == wstore[w] \in {"no_store", "add_failed", "partial"}

\* C14: an execution whose summarization succeeded and whose store call failed goes on to
\* progress 100 and returns: it writes SUCCESS with the full result and the processing
\* time, and never reaches the task's exception handler
C14_PersistenceNonFatal ==
    [][\A w \in Workers :
          StoreFailed(w) =>
              /\ wpc[w] \in {"stored", "p100"}
              /\ wres[w].present
              /\ wpc'[w] \in {wpc[w], "p100", "idle"}
              /\ (wpc[w] = "stored" /\ wpc'[w] = "p100")
                    => backend'[wmsg[w].id] = ProcessingMeta(100)
              /\ (wpc[w] = "p100" /\ wpc'[w] = "idle")
                    => /\ backend'[wmsg[w].id].state = "SUCCESS"
                       /\ backend'[wmsg[w].id].result =
                              [wres[w] EXCEPT !.processing_time = TRUE]]_vars

\* C14 witness: a job that was executed once is COMPLETED with its result while the store
\* holds nothing for it
C14_Witness ==
    \E id \in 1..MaxJobs :
        /\ redelivered = 0
        /\ backend[id].state = "SUCCESS"
        /\ backend[id].result.present
        /\ ~store[id].summary.present
        /\ \A w \in Workers : wpc[w] = "idle"

C16_StoreAfterCompleted ==
    \A id \in 1..MaxJobs :
        store[id].summary.present =>
            /\ Status(id) = "completed"
            /\ store[id].summary.processing_time = backend[id].result.processing_time


\* the documents whose LLM call raised
Failed == { k \in 1..engine.n : engine.calls[k] = "failed" }

\* the call went to _summarize_multiple_chunks
MapReduce == engine.pc \notin {"idle", "called"} /\ engine.n # 1

\* C17: in the map-reduce path, once the LLM call of a chunk has failed the engine only
\* waits in gather or has raised: it makes no reduce call, builds no result and starts no
\* LLM call for a chunk of a later batch
C17_MapFailureAborts ==
    (MapReduce /\ Failed # {}) =>
        /\ engine.pc \in {"gather", "raised"}
        /\ engine.reduce = "none"
        /\ ~engine.result.present
        /\ \A k \in 1..engine.n : k > engine.i + BatchSize => engine.calls[k] = "none"

\* C17 witness: the engine has raised after a failure in the first batch and the chunk of
\* the second batch was never started
C17_Witness ==
    /\ MapReduce
    /\ engine.pc = "raised"
    /\ engine.n > BatchSize
    /\ Failed # {}
    /\ engine.calls[engine.n] = "none"
    /\ engine.reduce = "none"

\* C18: in the map-reduce path the reduce call is made only when the map call of every
\* chunk has returned, and its input is the stripped summary of every chunk in chunk order
C18_ReduceInChunkOrder ==
    (MapReduce /\ engine.reduce # "none") =>
        /\ \A k \in 1..engine.n : engine.calls[k] = "returned"
        /\ engine.reduce_input =
               [k \in 1..engine.n |-> [chunk |-> k, text |-> Strip(engine.answers[k])]]

\* C18 witness: the reduce call was made after the calls of the last batch completed out of
\* chunk order
C18_Witness ==
    /\ MapReduce
    /\ engine.reduce # "none"
    /\ Len(engine.completed) >= 2
    /\ engine.completed[1] > engine.completed[2]
    /\ Len(engine.reduce_input) = engine.n

\* the batch document k belongs to
BatchOf(k) == (k - 1) \div BatchSize

\* C19: at most batch-size LLM calls are in flight, and a call of a later batch is started
\* only when every call of the earlier batches has returned
C19_BatchedCalls ==
    /\ Cardinality(Running) <= 3
    /\ \A k1 \in 1..engine.n, k2 \in 1..engine.n :
          (BatchOf(k2) > BatchOf(k1) /\ engine.calls[k2] # "none")
              => engine.calls[k1] = "returned"

\* C19 witness: a call of the second batch is in flight
C19_Witness ==
    /\ engine.n > BatchSize
    /\ engine.calls[BatchSize + 1] = "running"
    /\ \A k \in 1..BatchSize : engine.calls[k] = "returned"

\* C20 (as claimed): a call with a text that is empty or only whitespace makes no LLM
\* call, builds no result and ends by raising
C20_EmptyTextRejected ==
    (engine.pc # "idle" /\ Strip(engine.text).chars = 0) =>
        /\ engine.llm_calls = 0
        /\ ~engine.result.present
        /\ engine.pc # "done"

\* summarize_transcript took the branch of line 61 / of line 64
SinglePath ==
    engine.pc \in {"single", "single_wait"} \/ (engine.pc = "done" /\ engine.reduce = "none")
MapReducePath ==
    engine.pc \in {"batch", "gather", "sleep", "reduce_wait"} \/ engine.reduce # "none"

\* C21 (as claimed): every result the engine returns has a chunk count of at least one,
\* equal to the number of documents the splitter produced; the count is one exactly when
\* the single-chunk path was taken and more than one exactly when the map-reduce path was
C21_ChunkCount ==
    engine.result.present =>
        /\ engine.chunk_count >= 1
        /\ engine.chunk_count = engine.n
        /\ (engine.chunk_count = 1) <=> SinglePath
        /\ (engine.chunk_count > 1) <=> MapReducePath

\* C22: a call that returned a result for one chunk made exactly one LLM call and no
\* reduce call; for more than one chunk it made one map call per chunk, each returned
\* before the single reduce call; no chunk is ever sent to the LLM more than once
C22_CallCounts ==
    /\ \A k \in 1..Len(engine.sent) : engine.sent[k] <= 1
    /\ (engine.pc = "done" /\ engine.n = 1) =>
           /\ engine.llm_calls = 1
           /\ engine.sent = <<1>>
           /\ engine.reduce = "none"
    /\ (engine.pc = "done" /\ engine.n > 1) =>
           /\ engine.llm_calls = engine.chunk_count + 1
           /\ \A k \in 1..engine.n : engine.sent[k] = 1 /\ engine.calls[k] = "returned"
           /\ engine.reduce = "returned"
           /\ Len(engine.reduce_input) = engine.n

\* C22 witness: a call over two batches has returned its result
C22_Witness ==
    /\ engine.pc = "done"
    /\ engine.n > BatchSize
    /\ engine.llm_calls = engine.n + 1
    /\ engine.reduce = "returned"

\* C23: in every result summary_length is the length of the stripped final LLM output,
\* original_length the length of the input text, and compression_ratio is
\* original_length / summary_length when the summary is not empty and 0 when it is
\* (1000 / 100 is 10, 40 / 5 is 8)
C23_ResultNumbers ==
    engine.result.present =>
        LET r == engine.result
            c == engine.compression_ratio
        IN  /\ r.summary_length = TextLen(Strip(engine.final))
            /\ r.original_length = TextLen(engine.text)
            /\ c.den > 0
            /\ r.summary_length > 0 => c.num * r.summary_length = c.den * r.original_length
            /\ r.summary_length = 0 => c.num = 0
            /\ (r.original_length = 1000 /\ r.summary_length = 100) => c.num = 10 * c.den
            /\ (r.original_length = 40 /\ r.summary_length = 5) => c.num = 8 * c.den

\* C23 witness: a text of 1000 characters was summarized in 100 characters, ratio 10
C23_Witness ==
    /\ engine.result.present
    /\ engine.result.original_length = 1000
    /\ engine.result.summary_length = 100
    /\ engine.compression_ratio.num = 10 * engine.compression_ratio.den

\* worker w waits for the LLM calls of job id
AwaitingLLM(w, id) == wpc[w] = "p20" /\ wmsg[w].id = id

\* C24 (as claimed): a job whose execution waits for an LLM call reaches COMPLETED or
\* FAILED even when the LLM server never answers, the call being cut off by the timeout
C24_HangingCallFails ==
    \A id \in 1..MaxJobs :
        (\E w \in Workers : AwaitingLLM(w, id)) ~> (Status(id) \in Terminal)

\* C25 (as claimed): the documents made from a non-empty text cover it without gaps: there
\* is at least one, and when there is exactly one it is the text itself
C25_ChunksCoverText ==
    (engine.pc \notin {"idle", "called"} /\ TextLen(engine.text) > 0) =>
        /\ engine.n >= 1
        /\ engine.n = 1 => SingleDocument(engine.text) = engine.text

\* C26: in every process, whatever get_vector_store calls were made, the calls that
\* returned all returned the same store, and that store was constructed once
C26_SingletonStore ==
    \A p \in Procs :
        /\ Cardinality(vs_instance[p].returned) <= 1
        /\ vs_instance[p].constructed <= 1
        /\ vs_instance[p].returned # {} =>
               /\ vs_instance[p].returned = {vs_instance[p].instance}
               /\ vs_instance[p].constructed = 1
        /\ (last.op = "get_vector_store" /\ last.proc = p /\ ~last.raised) =>
               last.instance \in vs_instance[p].returned

\* C26 witness: a call in a process that already held a store returned that store
C26_Witness ==
    /\ last.op = "get_vector_store"
    /\ ~last.raised
    /\ last.held # 0
    /\ last.instance = last.held
    /\ vs_instance[last.proc].constructed = 1

\* the call last made was delete_summary
IsDelete == last.op = "delete_summary"

\* at least one of the two documents of a task is in the collection
InStore(docs) == docs.summary.present \/ docs.original

\* what a delete_summary call that found documents leaves, and what one that found none
DeleteEffect ==
    /\ last.returned =>
           /\ last.delete_issued
           /\ ~InStore(last.after)
           /\ VsGetSummary(last.after, TRUE) = NoResult
    /\ ~last.returned /\ ~InStore(last.before) =>
           /\ ~last.delete_issued
           /\ last.after = last.before

\* C27 (as claimed): delete_summary returns True exactly when at least one of the two
\* documents of the task is in the store, and then neither is left and get_summary finds
\* nothing; when none is there it returns False, issues no delete and leaves the store
\* as it was
C27_Original ==
    IsDelete => (last.returned <=> InStore(last.before)) /\ DeleteEffect

\* C27 (amended): when the collection answers the calls, delete_summary returns True
\* exactly when at least one of the two documents is in the store, and then neither is
\* left and get_summary finds nothing; when none is there it returns False, issues no
\* delete and leaves the store as it was; when a call on the collection raises it returns
\* False and the store is as it was
C27_DeleteSummary ==
    IsDelete =>
        /\ last.outcome = "ok" => (last.returned <=> InStore(last.before))
        /\ last.outcome # "ok" => (~last.returned /\ last.after = last.before)
        /\ DeleteEffect

\* C27 witness: a delete_summary call found both documents, removed them and returned True
C27_Witness ==
    /\ IsDelete
    /\ last.returned
    /\ last.before.summary.present
    /\ last.before.original
    /\ last.after = NoDocs
    /\ store[last.task_id] = NoDocs

\* the call last made was an accepted submission through either endpoint
AcceptedEither == last.op \in {"submit", "upload"} /\ Accepted

C29_EnqueuedArgsFit ==
    /\ \A m \in InFlight : ArgsFit(m) /\ m.style \in SummaryType
    /\ \A id \in 1..MaxJobs :
           ~(backend[id].state = "FAILURE" /\ backend[id].info = "TypeError")

\* C30 (as claimed): every message on the queue has a text that is non-empty after
\* trimming and no longer than the configured maximum
C30_QueuedTextBounds ==
    \A m \in Queued :
        /\ Strip(m.text).chars > 0
        /\ TextLen(m.text) <= max_text_length

====
